---- MODULE Spec2Model ----
(***************************************************************************)
(* Farm Management + POS (farm_manager_app.py).                            *)
(*                                                                         *)
(* The persistent state is the three CSV files sites.csv, crops.csv and    *)
(* sales.csv; the session state is st.session_state (auth_ok, cart).       *)
(* Every button press runs the script once: the run loads the tables from  *)
(* disk, applies the handler of the pressed button and writes back.        *)
(*                                                                         *)
(* Quantities (qty, yield, available) are whole units and money is whole   *)
(* cents, so the float arithmetic of the script is exact here.  Free-text  *)
(* columns that no handler reads back (address, phone, notes) and the      *)
(* wall-clock "date" of a sale row are not carried.                        *)
(***************************************************************************)
EXTENDS Integers, Sequences, FiniteSets, TLC

\* ------------------------------------------------------------------ bounds
MaxSites == 1
MaxCrops == 1
MaxSales == 2
MaxCart  == 2
MaxQty   == 2

\* the catalog specification: sites and crops it lets the tables hold
CatalogSites == 2
CatalogCrops == 2

\* the two-session specification: entries in each cart
ConcCart == 1

\* the dashboard specification: crops in the table, last day of the clock
DashCrops == 3
MaxDay    == 3

\* ------------------------------------------------------- program constants
\* tax = subtotal * 0.0
TaxRate == 0
\* default expected harvest date: today + 90 days
DefaultHarvestDays == 90
\* the day the forms are filled in (date.today())
Today == 0

\* the alert window: between(0, 7)
HarvestAlertWindow == 7

DefaultPassword == "admin123"
\* st.secrets["FARM_PASSWORD"]: the deployment configures no secret
FarmPasswordSecret == ""

\* ------------------------------------------------------------ input sets
\* the browser sessions that hold a st.session_state
Sessions   == {1, 2}
\* the sessions that press buttons: the deployment has one operator
Operators  == {1}
Passwords  == {DefaultPassword, "letmein"}
SiteNames  == {"North Field"}
ItemNames  == {"Tomato"}
Units      == {"kg"}
Prices     == {300}
Quantities == 0..MaxQty

\* ----------------------------------------------------------- date cells
\* A date cell of crops.csv / of the crops dataframe.  Blank is the empty
\* cell "", NaT is pandas' missing date (written to disk as the text "NaT"),
\* Date(d) is the calendar day d (a date object in memory, its ISO text on
\* disk).
Blank   == [t |-> "blank"]
NaT     == [t |-> "NaT"]
Date(d) == [t |-> "date", d |-> d]

PlantedInputs  == {Date(Today)}
ExpectedInputs == {Date(Today + DefaultHarvestDays)}
\* st.date_input(..., value=None): None or a day
ActualInputs   == {Blank, Date(Today)}

\* the date widgets accept any day, earlier ones too
CatalogPlanted  == {Date(Today)}
CatalogExpected == {Date(Today - 1), Date(Today + DefaultHarvestDays)}
CatalogActual   == {Blank, Date(Today - 1), Date(Today)}

\* the dashboard runs: crops expected yesterday, in 3 days and in 10 days;
\* date.today() of a run is one of the days Today..MaxDay
DashPlanted  == {Date(Today)}
DashExpected == {Date(Today - 1), Date(Today + 3), Date(Today + 10)}
DashActual   == {Blank, Date(Today)}
DashDays     == Today..MaxDay

VARIABLES
    sites,        \* sites.csv : sequence of site rows
    crops,        \* crops.csv : sequence of crop rows
    sales,        \* sales.csv : sequence of sale rows
    auth_ok,      \* st.session_state.auth_ok, per session
    cart,         \* st.session_state.cart, per session
    pc,           \* where each session's script run stands
    sites_df,     \* the sites dataframe the run loaded (line 168 / 255)
    crops_df,     \* the crops dataframe the run loaded (line 169 / 256)
    sales_df,     \* the sales dataframe the run loaded (line 257)
    sale_site,    \* POS run: the "Sale site" selectbox value
    pre,          \* history: the tables as the finalize run read them
    pw,           \* the text in the "Password" box, per session
    today,        \* date.today() of the last run that rendered the dashboard
    soon          \* dashboard: crop_ids of the "ready within 7 days" alert,
                  \* per session

vars == <<sites, crops, sales, auth_ok, cart, pc, sites_df, crops_df,
          sales_df, sale_site, pre, pw, today, soon>>

\* ---------------------------------------------------------------- helpers
Max(S) == CHOOSE x \in S : \A y \in S : y <= x

RECURSIVE SumSeq(_)
SumSeq(q) == IF q = <<>> THEN 0 ELSE Head(q) + SumSeq(Tail(q))

Ids(df, col)    == {df[i][col] : i \in 1..Len(df)}

\* pd.to_datetime(col, errors="coerce").dt.date : "" and "NaT" parse to NaT
to_date(cell) == IF cell.t = "date" THEN cell ELSE NaT

\* x.isoformat() for a date, "" kept, anything else str(x) (NaT -> "NaT")
date_text(x) == IF x.t = "date" THEN x ELSE IF x = Blank THEN Blank ELSE NaT

load_crops_row(r) ==
    [r EXCEPT !.date_planted          = to_date(@),
              !.expected_harvest_date = to_date(@),
              !.actual_harvest_date   = to_date(@)]

save_crops_row(r) ==
    [r EXCEPT !.date_planted          = date_text(@),
              !.expected_harvest_date = date_text(@),
              !.actual_harvest_date   = date_text(@)]

load_crops(file) == [i \in 1..Len(file) |-> load_crops_row(file[i])]
save_crops(df)   == [i \in 1..Len(df) |-> save_crops_row(df[i])]
load_sites(file) == file
load_sales(file) == file
save_sales(df)   == df

\* next_id without the "+ 1": the largest id in use is handed out again
next_id_reuse(df, id_col) ==
    IF df = <<>> THEN 1 ELSE Max(Ids(df, id_col))

next_id(df, id_col) ==
    IF df = <<>> THEN 1 ELSE Max(Ids(df, id_col)) + 1

\* df.index[df["crop_id"] == cid][0] : the first row with that crop_id
RowOf(df, cid) ==
    CHOOSE i \in 1..Len(df) :
        /\ df[i].crop_id = cid
        /\ \A j \in 1..(i - 1) : df[j].crop_id # cid

\* ------------------------------------------------------------------- Init
NoRun == [crops |-> <<>>, sales |-> <<>>, sites |-> <<>>]

Init ==
    /\ sites = <<>>
    /\ crops = <<>>
    /\ sales = <<>>
    /\ auth_ok = [s \in Sessions |-> FALSE]
    /\ cart = [s \in Sessions |-> <<>>]
    /\ pc = [s \in Sessions |-> "locked"]
    /\ sites_df = [s \in Sessions |-> <<>>]
    /\ crops_df = [s \in Sessions |-> <<>>]
    /\ sales_df = [s \in Sessions |-> <<>>]
    /\ sale_site = [s \in Sessions |-> 0]
    /\ pre = [s \in Sessions |-> NoRun]
    /\ pw = [s \in Sessions |-> ""]
    /\ today = Today
    /\ soon = [s \in Sessions |-> {}]

\* A session between two script runs: the last run has ended (the page was
\* rendered, or the run stopped on an exception) and the page waits for a
\* button.
QuietPcs == {"idle", "finalize_failed", "reset_failed", "exported"}
Quiet(s) == auth_ok[s] /\ pc[s] \in QuietPcs

\* The run leaves its handler: the dataframes of the run are dropped and the
\* session is at `at`.  At "rerun" the Dashboard tab is still to be rendered,
\* by the rest of this run or by the run that st.experimental_rerun() starts.
Rerun(s, at) ==
    /\ pc' = [pc EXCEPT ![s] = at]
    /\ sites_df' = [sites_df EXCEPT ![s] = <<>>]
    /\ crops_df' = [crops_df EXCEPT ![s] = <<>>]
    /\ sales_df' = [sales_df EXCEPT ![s] = <<>>]
    /\ sale_site' = [sale_site EXCEPT ![s] = 0]
    /\ pre' = [pre EXCEPT ![s] = NoRun]

\* ------------------------------------------------------------------ login
\* expected = pw_secret if pw_secret else "admin123"
expected == IF FarmPasswordSecret # "" THEN FarmPasswordSecret
            ELSE DefaultPassword

\* a gate that lets every non-empty password through
password_ok_nonempty(typed) == typed # ""

\* if pw == expected
password_ok(typed) == typed = expected

\* check_password, "Enter" pressed with `typed` in the password box: on the
\* expected password auth_ok is set and the script is run again, otherwise
\* st.stop() ends the run on the login page
Login(s, typed) ==
    /\ ~auth_ok[s]
    /\ pw' = [pw EXCEPT ![s] = typed]
    /\ IF password_ok(typed)
          THEN /\ auth_ok' = [auth_ok EXCEPT ![s] = TRUE]
               /\ pc' = [pc EXCEPT ![s] = "rerun"]
          ELSE UNCHANGED <<auth_ok, pc>>
    /\ UNCHANGED <<sites, crops, sales, cart, sites_df, crops_df, sales_df,
                   sale_site, pre, today, soon>>

\* -------------------------------------------------------------- dashboard
\* crops_df["actual_harvest_date"].isnull() | (... == "")
is_active(r) == r.actual_harvest_date = NaT \/ r.actual_harvest_date = Blank

\* the distance to the expected date whatever its direction
days_until_abs(d, t) == IF d.d >= t THEN d.d - t ELSE t - d.d

\* (dd - date.today()).days
days_until(d, t) == d.d - t

\* a window that leaves out both of its ends
between_exclusive(x, lo, hi) == lo < x /\ x < hi

\* Series.between(lo, hi): both ends included
between(x, lo, hi) == lo <= x /\ x <= hi

\* active[active["days_until_harvest"].between(0,7)]; a cell that is no date
\* has no days_until_harvest and is in no window
is_soon(r, t) ==
    /\ r.expected_harvest_date.t = "date"
    /\ between(days_until(r.expected_harvest_date, t), 0, HarvestAlertWindow)

harvest_soon(df, t) ==
    LET active  == SelectSeq(df, is_active)
        soon_df == SelectSeq(active, LAMBDA r : is_soon(r, t))
    IN  {soon_df[i].crop_id : i \in 1..Len(soon_df)}

\* The Dashboard tab of a run of session s on day t: the crops are loaded
\* (line 377) and the alert is listed.
Render(s, t) ==
    /\ t >= today
    /\ today' = t
    /\ soon' = [soon EXCEPT ![s] = harvest_soon(load_crops(crops), t)]

\* The end of a run that reaches the Dashboard tab, on one of the given days:
\* the rest of a run whose handler is done, the run started by
\* st.experimental_rerun(), or a run in which no button was pressed.
Dashboard(s, days) ==
    /\ Quiet(s) \/ pc[s] = "rerun"
    /\ \E t \in days : Render(s, t)
    /\ Rerun(s, "idle")
    /\ UNCHANGED <<sites, crops, sales, auth_ok, cart, pw>>

\* --------------------------------------------------------------- add site
\* sites_df = load_sites() (line 168) of a run in which "Add Site" was
\* submitted, while the table holds fewer than n sites
AddSiteLoad(s, n) ==
    /\ Quiet(s)
    /\ Len(sites) < n
    /\ sites_df' = [sites_df EXCEPT ![s] = load_sites(sites)]
    /\ pc' = [pc EXCEPT ![s] = "add_site_loaded"]
    /\ UNCHANGED <<sites, crops, sales, auth_ok, cart, crops_df, sales_df,
                   sale_site, pre, pw, today, soon>>

\* add_site_form: the new row is appended to the table as loaded, the table
\* is written and the script is run again
AddSiteSave(s) ==
    /\ pc[s] = "add_site_loaded"
    /\ \E site_name \in SiteNames :
          LET sid == next_id(sites_df[s], "site_id")
              new == [site_id |-> sid, site_name |-> site_name]
          IN  sites' = Append(sites_df[s], new)
    /\ Rerun(s, "rerun")
    /\ UNCHANGED <<crops, sales, auth_ok, cart, pw, today, soon>>

\* --------------------------------------------------------------- add crop
\* a selectbox that also offers an id no site row carries
SiteOptions_unlisted(df) == Ids(df, "site_id") \cup {0}

\* site_options = sites_df["site_id"].astype(int).tolist()
SiteOptions(df) == Ids(df, "site_id")

NewCrop(cid, site_choice, item_name, date_planted, expected_harvest_date, actual_harvest_date, yield_qty, unit, price_per_unit) ==
    [crop_id               |-> cid,
     site_id               |-> site_choice,
     item_name             |-> item_name,
     date_planted          |-> date_planted,
     expected_harvest_date |-> expected_harvest_date,
     actual_harvest_date   |-> actual_harvest_date,
     yield_qty             |-> yield_qty,
     unit                  |-> unit,
     price_per_unit        |-> price_per_unit,
     available_qty         |-> yield_qty]

\* sites_df = load_sites() (line 168) of a run in which "Add Crop / Item" was
\* submitted, while the table holds fewer than n crops; the form has its
\* submit button only when a site exists
AddCropLoadSites(s, n) ==
    /\ Quiet(s)
    /\ Len(crops) < n
    /\ load_sites(sites) # <<>>
    /\ sites_df' = [sites_df EXCEPT ![s] = load_sites(sites)]
    /\ pc' = [pc EXCEPT ![s] = "add_crop_sites"]
    /\ UNCHANGED <<sites, crops, sales, auth_ok, cart, crops_df, sales_df,
                   sale_site, pre, pw, today, soon>>

\* crops_df = load_crops() (line 169) of that run
AddCropLoadCrops(s, n) ==
    /\ pc[s] = "add_crop_sites"
    /\ Len(crops) < n
    /\ crops_df' = [crops_df EXCEPT ![s] = load_crops(crops)]
    /\ pc' = [pc EXCEPT ![s] = "add_crop_loaded"]
    /\ UNCHANGED <<sites, crops, sales, auth_ok, cart, sites_df, sales_df,
                   sale_site, pre, pw, today, soon>>

\* add_crop_form, the three date widgets taking their values from the given
\* sets: the new row is appended to the table as loaded, the table is written
\* and the script is run again
AddCropSave(s, planted, expecteds, actuals) ==
    /\ pc[s] = "add_crop_loaded"
    /\ \E site_choice \in SiteOptions(sites_df[s]), item_name \in ItemNames,
          date_planted \in planted,
          expected_harvest_date \in expecteds,
          actual_harvest_date \in actuals,
          yield_qty \in Quantities, unit \in Units,
          price_per_unit \in Prices :
          LET cid == next_id(crops_df[s], "crop_id")
              new == NewCrop(cid, site_choice, item_name, date_planted,
                             expected_harvest_date, actual_harvest_date,
                             yield_qty, unit, price_per_unit)
          IN  crops' = save_crops(Append(crops_df[s], new))
    /\ Rerun(s, "rerun")
    /\ UNCHANGED <<sites, sales, auth_ok, cart, pw, today, soon>>

\* -------------------------------------------------------------- edit crop
\* crops_df.at[idx, "available_qty"] = new_avail ;
\* crops_df.at[idx, "actual_harvest_date"] = "" or the ISO text
EditRow(df, sel, new_avail, new_actual) ==
    LET idx == RowOf(df, sel)
    IN  [df EXCEPT ![idx].available_qty = new_avail,
                   ![idx].actual_harvest_date = new_actual]

\* crops_df = load_crops() (line 169) of a run in which the edit form was
\* submitted; the form exists only when the table has a row
EditCropLoad(s) ==
    /\ Quiet(s)
    /\ load_crops(crops) # <<>>
    /\ crops_df' = [crops_df EXCEPT ![s] = load_crops(crops)]
    /\ pc' = [pc EXCEPT ![s] = "edit_crop_loaded"]
    /\ UNCHANGED <<sites, crops, sales, auth_ok, cart, sites_df, sales_df,
                   sale_site, pre, pw, today, soon>>

\* edit_crop_form, the date widget taking its value from the given set: the
\* selected row of the table as loaded is changed, the table is written and
\* the script is run again
EditCropSave(s, actuals) ==
    /\ pc[s] = "edit_crop_loaded"
    /\ \E sel \in Ids(crops_df[s], "crop_id"), new_avail \in Quantities,
          new_actual \in actuals :
          crops' = save_crops(EditRow(crops_df[s], sel, new_avail, new_actual))
    /\ Rerun(s, "rerun")
    /\ UNCHANGED <<sites, sales, auth_ok, cart, pw, today, soon>>

\* ------------------------------------------------------------ add to cart
\* available_products = crops_df[crops_df["available_qty"] > 0]
available_products(df) ==
    {i \in 1..Len(df) : df[i].available_qty > 0}

CartEntry(r, qty) ==
    [crop_id        |-> r.crop_id,
     item_name      |-> r.item_name,
     qty            |-> qty,
     unit           |-> r.unit,
     price_per_unit |-> r.price_per_unit]

\* "Add to cart", while the cart holds fewer than n entries: the product is
\* taken from the crops loaded at line 256 and appended to the session's
\* cart; the run goes on to the Dashboard tab
AddToCartUpTo(s, n) ==
    /\ Quiet(s)
    /\ Len(cart[s]) < n
    /\ LET df == load_crops(crops)
       IN  \E i \in available_products(df), qty \in Quantities :
              cart' = [cart EXCEPT ![s] = Append(@, CartEntry(df[i], qty))]
    /\ Rerun(s, "rerun")
    /\ UNCHANGED <<sites, crops, sales, auth_ok, pw, today, soon>>

\* ---------------------------------------------------------- finalize sale
\* a subtotal that adds up the unit prices and forgets the quantities
cart_subtotal_unit_prices(items) ==
    SumSeq([i \in 1..Len(items) |-> items[i].price_per_unit])

\* subtotal = (cart_df["qty"] * cart_df["price_per_unit"]).sum()
cart_subtotal(items) ==
    SumSeq([i \in 1..Len(items) |-> items[i].qty * items[i].price_per_unit])

\* tax = subtotal * 0.0
cart_tax(subtotal) == subtotal * TaxRate

\* total = subtotal + tax
cart_total(subtotal, tax) == subtotal + tax

\* the loop turn without its "if ... < 0: ... = 0.0"
ReduceItem_unclamped(df, item) ==
    LET idx  == RowOf(df, item.crop_id)
    IN  [df EXCEPT ![idx].available_qty = @ - item.qty]

\* one turn of the "reduce inventory" loop: subtract, then clamp at zero
ReduceItem(df, item) ==
    LET idx  == RowOf(df, item.crop_id)
        left == df[idx].available_qty - item.qty
    IN  [df EXCEPT ![idx].available_qty = IF left < 0 THEN 0 ELSE left]

\* a loop in which every turn subtracts from the balance as loaded, so that of
\* two lines of one crop only the last one counts
RECURSIVE ReduceInventory_from_loaded(_, _)
ReduceInventory_from_loaded(df, items) ==
    IF items = <<>> THEN df
    ELSE LET item == items[Len(items)]
             rest == ReduceInventory_from_loaded(df, SubSeq(items, 1, Len(items) - 1))
             idx  == RowOf(df, item.crop_id)
             left == df[idx].available_qty - item.qty
         IN  [rest EXCEPT ![idx].available_qty = IF left < 0 THEN 0 ELSE left]

\* for item in st.session_state.cart: ...
RECURSIVE ReduceInventory(_, _)
ReduceInventory(df, items) ==
    IF items = <<>> THEN df
    ELSE ReduceInventory(ReduceItem(df, Head(items)), Tail(items))

\* sale_id = next_id(sales_df, "sale_id") if ... not sales_df.empty else 1
new_sale_id(df) == IF df # <<>> THEN next_id(df, "sale_id") ELSE 1

sale_row(sale_id, site, items) ==
    LET subtotal == cart_subtotal(items)
        tax      == cart_tax(subtotal)
    IN  [sale_id  |-> sale_id,
         site_id  |-> site,
         items    |-> items,
         subtotal |-> subtotal,
         tax      |-> tax,
         total    |-> cart_total(subtotal, tax)]

\* a table that keeps the new row only
concat_sale_overwrite(df, row) == <<row>>

\* sales_df = pd.concat([sales_df, pd.DataFrame([sale_row])])
concat_sale(df, row) == Append(df, row)

\* The run of the "Finalize Sale & Generate Receipt" button, from its
\* sites_df = load_sites() (line 255): the sale site is the selectbox value.
\* The button exists only with a non-empty cart.
FinalizeBegin(s) ==
    /\ Quiet(s)
    /\ cart[s] # <<>>
    /\ Len(sales) < MaxSales
    /\ load_sites(sites) # <<>>
    /\ sites_df' = [sites_df EXCEPT ![s] = load_sites(sites)]
    /\ \E site \in SiteOptions(load_sites(sites)) :
          sale_site' = [sale_site EXCEPT ![s] = site]
    /\ pre' = [pre EXCEPT ![s] = [crops |-> crops, sales |-> sales,
                                  sites |-> sites]]
    /\ pc' = [pc EXCEPT ![s] = "pos_sites"]
    /\ UNCHANGED <<sites, crops, sales, auth_ok, cart, crops_df, sales_df,
                   pw, today, soon>>

\* crops_df = load_crops() (line 256)
FinalizeLoadCrops(s) ==
    /\ pc[s] = "pos_sites"
    /\ crops_df' = [crops_df EXCEPT ![s] = load_crops(crops)]
    /\ pre' = [pre EXCEPT ![s].crops = crops]
    /\ pc' = [pc EXCEPT ![s] = "pos_crops"]
    /\ UNCHANGED <<sites, crops, sales, auth_ok, cart, sites_df, sales_df,
                   sale_site, pw, today, soon>>

\* sales_df = load_sales() (line 257), then the reduce-inventory loop on the
\* crops dataframe in memory; the loop raises IndexError on a cart entry whose
\* crop_id is in no row of the loaded table, and the run ends there
FinalizeLoadSales(s) ==
    /\ pc[s] = "pos_crops"
    /\ Len(sales) < MaxSales
    /\ sales_df' = [sales_df EXCEPT ![s] = load_sales(sales)]
    /\ pre' = [pre EXCEPT ![s].sales = sales]
    /\ IF \A k \in 1..Len(cart[s]) :
             cart[s][k].crop_id \in Ids(crops_df[s], "crop_id")
          THEN /\ crops_df' = [crops_df EXCEPT
                                 ![s] = ReduceInventory(@, cart[s])]
               /\ pc' = [pc EXCEPT ![s] = "reduced"]
          ELSE /\ pc' = [pc EXCEPT ![s] = "finalize_failed"]
               /\ UNCHANGED crops_df
    /\ UNCHANGED <<sites, crops, sales, auth_ok, cart, sites_df, sale_site,
                   pw, today, soon>>

\* save_crops(crops_df)
FinalizeSaveCrops(s) ==
    /\ pc[s] = "reduced"
    /\ crops' = save_crops(crops_df[s])
    /\ pc' = [pc EXCEPT ![s] = "crops_saved"]
    /\ UNCHANGED <<sites, sales, auth_ok, cart, sites_df, crops_df, sales_df,
                   sale_site, pre, pw, today, soon>>

\* the sale record is built, appended to the loaded sales and written
FinalizeSaveSales(s) ==
    /\ pc[s] = "crops_saved"
    /\ LET row == sale_row(new_sale_id(sales_df[s]), sale_site[s], cart[s])
           df  == concat_sale(sales_df[s], row)
       IN  /\ sales_df' = [sales_df EXCEPT ![s] = df]
           /\ sales' = save_sales(df)
    /\ pc' = [pc EXCEPT ![s] = "sales_saved"]
    /\ UNCHANGED <<sites, crops, auth_ok, cart, sites_df, crops_df, sale_site,
                   pre, pw, today, soon>>

\* the write of sales.csv raises (storage fault): the run ends there
FinalizeSaveSalesFault(s) ==
    /\ pc[s] = "crops_saved"
    /\ pc' = [pc EXCEPT ![s] = "finalize_failed"]
    /\ UNCHANGED <<sites, crops, sales, auth_ok, cart, sites_df, crops_df,
                   sales_df, sale_site, pre, pw, today, soon>>

\* The receipt: the header line of line 338 holds an em dash, which the core
\* font "Arial" (latin-1) cannot encode, so the rendering raises in every run
\* (fpdf2 at the cell call, PyFPDF at pdf.output).  The run ends there: no
\* "Sale recorded" message, and the "clear cart" of line 369 is not reached.
FinalizeReceipt(s) ==
    /\ pc[s] = "sales_saved"
    /\ pc' = [pc EXCEPT ![s] = "finalize_failed"]
    /\ UNCHANGED <<sites, crops, sales, auth_ok, cart, sites_df, crops_df,
                   sales_df, sale_site, pre, pw, today, soon>>

\* ----------------------------------------------------------------- export
\* "Export All CSVs" / the download buttons: the files are read, not written,
\* and the run goes on through the Dashboard tab
Export(s, days) ==
    /\ Quiet(s)
    /\ \E t \in days : Render(s, t)
    /\ Rerun(s, "exported")
    /\ UNCHANGED <<sites, crops, sales, auth_ok, cart, pw>>

\* ------------------------------------------------------------------ reset
\* "Reset ALL DATA": the Dashboard tab is rendered, then st.confirm, which is
\* no attribute of streamlit, ends the run with AttributeError before any
\* ensure_csv call (and ensure_csv writes a table only when its file is
\* absent)
Reset(s, days) ==
    /\ Quiet(s)
    /\ \E t \in days : Render(s, t)
    /\ Rerun(s, "reset_failed")
    /\ UNCHANGED <<sites, crops, sales, auth_ok, cart, pw>>

\* ------------------------------------------------------------------- Next
\* the days of the runs in which the clock plays no part
OneDay == {Today}

Step(s) ==
    \/ \E typed \in Passwords : Login(s, typed)
    \/ Dashboard(s, OneDay)
    \/ AddSiteLoad(s, MaxSites)
    \/ AddSiteSave(s)
    \/ AddCropLoadSites(s, MaxCrops)
    \/ AddCropLoadCrops(s, MaxCrops)
    \/ AddCropSave(s, PlantedInputs, ExpectedInputs, ActualInputs)
    \/ EditCropLoad(s)
    \/ EditCropSave(s, ActualInputs)
    \/ AddToCartUpTo(s, MaxCart)
    \/ FinalizeBegin(s)
    \/ FinalizeLoadCrops(s)
    \/ FinalizeLoadSales(s)
    \/ FinalizeSaveCrops(s)
    \/ FinalizeSaveSales(s)
    \/ FinalizeSaveSalesFault(s)
    \/ FinalizeReceipt(s)
    \/ Export(s, OneDay)
    \/ Reset(s, OneDay)

Next == \E s \in Operators : Step(s)

Spec == Init /\ [][Next]_vars

\* The runs in which no manual inventory update is made and no write fails:
\* sites and crops are added, carts built and finalized.
StepReplay(s) ==
    \/ \E typed \in Passwords : Login(s, typed)
    \/ Dashboard(s, OneDay)
    \/ AddSiteLoad(s, MaxSites)
    \/ AddSiteSave(s)
    \/ AddCropLoadSites(s, MaxCrops)
    \/ AddCropLoadCrops(s, MaxCrops)
    \/ AddCropSave(s, PlantedInputs, ExpectedInputs, ActualInputs)
    \/ AddToCartUpTo(s, MaxCart)
    \/ FinalizeBegin(s)
    \/ FinalizeLoadCrops(s)
    \/ FinalizeLoadSales(s)
    \/ FinalizeSaveCrops(s)
    \/ FinalizeSaveSales(s)
    \/ FinalizeReceipt(s)

NextReplay == \E s \in Operators : StepReplay(s)

SpecReplay == Init /\ [][NextReplay]_vars

\* The catalog runs: sites and crops are added and edited with any dates, the
\* tables are exported, a reset is tried; nothing is sold.
StepCatalog(s) ==
    \/ \E typed \in Passwords : Login(s, typed)
    \/ Dashboard(s, OneDay)
    \/ AddSiteLoad(s, CatalogSites)
    \/ AddSiteSave(s)
    \/ AddCropLoadSites(s, CatalogCrops)
    \/ AddCropLoadCrops(s, CatalogCrops)
    \/ AddCropSave(s, CatalogPlanted, CatalogExpected, CatalogActual)
    \/ EditCropLoad(s)
    \/ EditCropSave(s, CatalogActual)
    \/ Export(s, OneDay)
    \/ Reset(s, OneDay)

NextCatalog == \E s \in Operators : StepCatalog(s)

SpecCatalog == Init /\ [][NextCatalog]_vars

\* The dashboard runs: crops are added with expected dates around the alert
\* window, some of them harvested, and the dashboard is looked at on the days
\* that follow.
StepDash(s) ==
    \/ \E typed \in Passwords : Login(s, typed)
    \/ Dashboard(s, DashDays)
    \/ AddSiteLoad(s, MaxSites)
    \/ AddSiteSave(s)
    \/ AddCropLoadSites(s, DashCrops)
    \/ AddCropLoadCrops(s, DashCrops)
    \/ AddCropSave(s, DashPlanted, DashExpected, DashActual)

NextDash == \E s \in Operators : StepDash(s)

SpecDash == Init /\ [][NextDash]_vars

\* Two browser sessions at once: each script run is a thread of its own, so
\* the loads and saves of two runs interleave in any order.  No write fails
\* and no manual inventory update is made.
StepConc(s) ==
    \/ \E typed \in Passwords : Login(s, typed)
    \/ Dashboard(s, OneDay)
    \/ AddSiteLoad(s, MaxSites)
    \/ AddSiteSave(s)
    \/ AddCropLoadSites(s, MaxCrops)
    \/ AddCropLoadCrops(s, MaxCrops)
    \/ AddCropSave(s, PlantedInputs, ExpectedInputs, ActualInputs)
    \/ AddToCartUpTo(s, ConcCart)
    \/ FinalizeBegin(s)
    \/ FinalizeLoadCrops(s)
    \/ FinalizeLoadSales(s)
    \/ FinalizeSaveCrops(s)
    \/ FinalizeSaveSales(s)
    \/ FinalizeReceipt(s)

NextConc == \E s \in Sessions : StepConc(s)

SpecConc == Init /\ [][NextConc]_vars

\* ================================================================ claims
\* vocabulary of the claims
LineTotal(line) == line.qty * line.price_per_unit

RECURSIVE SumLineTotals(_)
SumLineTotals(items) ==
    IF items = <<>> THEN 0
    ELSE LineTotal(Head(items)) + SumLineTotals(Tail(items))

\* total quantity the lines of `items` ask of crop cid
RECURSIVE Demand(_, _)
Demand(items, cid) ==
    IF items = <<>> THEN 0
    ELSE (IF Head(items).crop_id = cid THEN Head(items).qty ELSE 0)
         + Demand(Tail(items), cid)

Lines(items, cid) == {i \in 1..Len(items) : items[i].crop_id = cid}

Avail(table, cid) == table[RowOf(table, cid)].available_qty

Stock(table) == [i \in 1..Len(table) |-> table[i].available_qty]

CartCrops(items) == {items[i].crop_id : i \in 1..Len(items)}

OverDemand(items, table) ==
    \E cid \in CartCrops(items) : Demand(items, cid) > Avail(table, cid)

\* a finalize run of session s is under way or has just failed: cart[s] is
\* the cart it was called with and pre[s] the store it was called on
InFinalize(s) ==
    pc[s] \in {"pos_sites", "pos_crops", "reduced", "crops_saved",
              "sales_saved", "finalize_failed"}

\* C1: every stored crop has available_qty >= 0.
NonNegativeStock ==
    \A i \in 1..Len(crops) : crops[i].available_qty >= 0

\* C1 witness: a finalize whose cart asked for more than was in stock has
\* written the crops table.
NonNegativeStock_witness ==
    \E s \in Sessions :
        /\ pc[s] = "crops_saved"
        /\ OverDemand(cart[s], pre[s].crops)
        /\ \E cid \in CartCrops(cart[s]) : Avail(crops, cid) = 0

\* C2 (as claimed): a finalize whose cart asks of some crop more than its
\* available_qty persists no Sale and leaves every available_qty as it was.
InsufficientStockRejected ==
    \A s \in Sessions :
        (InFinalize(s) /\ OverDemand(cart[s], pre[s].crops))
            => /\ sales = pre[s].sales
               /\ Stock(crops) = Stock(pre[s].crops)

\* C3 (as claimed): a finalize that ends in failure leaves the store as it
\* was before the call: no Sale more, no available_qty changed.  (Stated for
\* carts within stock, so that the clamp of C2 plays no part.)
FinalizeAllOrNothing ==
    \A s \in Sessions :
        (pc[s] = "finalize_failed" /\ ~OverDemand(cart[s], pre[s].crops))
            => /\ sales = pre[s].sales
               /\ Stock(crops) = Stock(pre[s].crops)

\* C4 (as claimed, no manual adjustments): between runs, every crop's
\* available_qty is its yield_qty minus the qty of all persisted sale lines
\* that reference it.
RECURSIVE Sold(_, _)
Sold(table, cid) ==
    IF table = <<>> THEN 0
    ELSE Demand(Head(table).items, cid) + Sold(Tail(table), cid)

StockConserved ==
    (\A s \in Sessions : pc[s] \in QuietPcs \cup {"locked"})
        => \A i \in 1..Len(crops) :
              crops[i].available_qty
                 = crops[i].yield_qty - Sold(sales, crops[i].crop_id)

\* C5: every persisted Sale has subtotal = sum of qty x price_per_unit over
\* its own lines, tax = subtotal x tax_rate (whole cents, so rounding to the
\* currency precision leaves it) and total = subtotal + tax.
SaleTotalsReconcile ==
    \A i \in 1..Len(sales) :
        /\ sales[i].subtotal = SumLineTotals(sales[i].items)
        /\ sales[i].tax = sales[i].subtotal * TaxRate
        /\ sales[i].total = sales[i].subtotal + sales[i].tax

\* C5 witness: a persisted Sale of two lines with a positive subtotal.
SaleTotalsReconcile_witness ==
    \E i \in 1..Len(sales) :
        /\ Len(sales[i].items) = 2
        /\ \A k \in 1..2 : sales[i].items[k].qty > 0
        /\ sales[i].subtotal > 0

\* C6: sale_ids are strictly increasing in commit order (the order of the
\* rows of the sales table).
MonotoneSaleIds ==
    \A i, j \in 1..Len(sales) :
        i < j => sales[i].sale_id < sales[j].sale_id

\* C6 witness: two Sales are persisted.
MonotoneSaleIds_witness ==
    /\ Len(sales) = 2
    /\ sales[2].sale_id = 2

\* C7: no step changes or removes a persisted Sale.
SalesImmutable ==
    [][\A i \in 1..Len(sales) :
          /\ i <= Len(sales')
          /\ sales'[i] = sales[i]]_vars

\* C7 witness: with a Sale persisted, a later finalize has appended a second
\* one and a reset has then been attempted.
SalesImmutable_witness ==
    /\ Len(sales) = 2
    /\ \E s \in Sessions : pc[s] = "reset_failed"

\* C8: every sale line's crop_id is in the crops table, every Sale's site_id
\* and every crop's site_id is in the sites table.
ReferencesExist ==
    /\ \A i \in 1..Len(sales) :
          /\ sales[i].site_id \in Ids(sites, "site_id")
          /\ \A k \in 1..Len(sales[i].items) :
                sales[i].items[k].crop_id \in Ids(crops, "crop_id")
    /\ \A i \in 1..Len(crops) : crops[i].site_id \in Ids(sites, "site_id")

\* C8 witness: a Sale with a line is persisted.
ReferencesExist_witness ==
    \E i \in 1..Len(sales) :
        /\ sales[i].items # <<>>
        /\ sales[i].site_id = crops[1].site_id

\* C9 (as claimed): Sales are rung at market sites only and crops planted at
\* field sites only, so no site is referenced by a Sale and by a crop.
SiteKindEnforced ==
    \A i \in 1..Len(sales), k \in 1..Len(crops) :
        sales[i].site_id # crops[k].site_id

\* C10: a finalize of a cart with several lines of one crop whose summed qty
\* is within the crop's available_qty persists the cart line by line, takes
\* exactly the sum off available_qty and records the sum of the line totals.
DuplicateLinesKept ==
    \A s \in Sessions :
        pc[s] = "sales_saved" =>
            \A cid \in CartCrops(cart[s]) :
                (/\ Cardinality(Lines(cart[s], cid)) >= 2
                 /\ Demand(cart[s], cid) <= Avail(pre[s].crops, cid))
                    => /\ sales[Len(sales)].items = cart[s]
                       /\ Avail(crops, cid)
                             = Avail(pre[s].crops, cid) - Demand(cart[s], cid)
                       /\ sales[Len(sales)].subtotal = SumLineTotals(cart[s])

\* C10 witness: such a finalize, both lines with qty > 0, has written the
\* sale.
DuplicateLinesKept_witness ==
    \E s \in Sessions :
        /\ pc[s] = "sales_saved"
        /\ \E cid \in CartCrops(cart[s]) :
              /\ Cardinality(Lines(cart[s], cid)) >= 2
              /\ \A i \in Lines(cart[s], cid) : cart[s][i].qty > 0
              /\ Demand(cart[s], cid) <= Avail(pre[s].crops, cid)
\* C11 (as claimed): every crop that enters a cart has, when it is listed,
\* available_qty > 0 and a recorded harvest (an actual_harvest_date).
OnlyHarvestedSellable ==
    [][\A s \in Sessions :
          Len(cart'[s]) = Len(cart[s]) + 1
             => LET entry == cart'[s][Len(cart'[s])]
                    row   == crops[RowOf(crops, entry.crop_id)]
                IN  /\ row.available_qty > 0
                    /\ row.actual_harvest_date.t = "date"]_vars

\* C12 (as claimed): every persisted sale line has qty > 0.
PositiveQuantities ==
    \A i \in 1..Len(sales) :
        \A k \in 1..Len(sales[i].items) : sales[i].items[k].qty > 0

\* C15: a session becomes authenticated only with the expected password in
\* the box; an unauthenticated session stays on the login page with its cart
\* untouched; and while no session is authenticated the store is not written.
AuthGate ==
    [][/\ \A s \in Sessions :
             (auth_ok'[s] /\ ~auth_ok[s]) => pw'[s] = expected
       /\ \A s \in Sessions :
             ~auth_ok[s]
                => /\ cart'[s] = cart[s]
                   /\ pc'[s] \in {"locked", "rerun"}
                   /\ pc'[s] = "rerun" => auth_ok'[s]
       /\ (\A s \in Sessions : ~auth_ok[s])
             => /\ sites' = sites
                /\ crops' = crops
                /\ sales' = sales]_vars

\* C15 witness: a session that typed the expected password is authenticated
\* and has written the store.
AuthGate_witness ==
    \E s \in Sessions :
        /\ auth_ok[s]
        /\ pw[s] = expected
        /\ crops # <<>>

\* C18 (as claimed): a finalize that persists a Sale appends exactly one Sale
\* row, leaves the sites and the earlier Sales as they were, changes
\* available_qty only of crops in the cart and no other field of any crop.
OtherFields(row) == [row EXCEPT !.available_qty = 0]

FinalizeFrame ==
    \A s \in Sessions :
        pc[s] = "sales_saved"
            => /\ Len(sales) = Len(pre[s].sales) + 1
               /\ SubSeq(sales, 1, Len(pre[s].sales)) = pre[s].sales
               /\ sites = pre[s].sites
               /\ Len(crops) = Len(pre[s].crops)
               /\ \A i \in 1..Len(crops) :
                     /\ OtherFields(crops[i]) = OtherFields(pre[s].crops[i])
                     /\ crops[i].crop_id \notin CartCrops(cart[s])
                           => crops[i].available_qty
                                 = pre[s].crops[i].available_qty

\* C19 (as claimed): every persisted Sale has a line, and when a finalize run
\* that persisted a Sale has ended the session's cart is empty.
CartCommittedOnce ==
    /\ \A i \in 1..Len(sales) : sales[i].items # <<>>
    /\ \A s \in Sessions :
          (pc[s] \in QuietPcs /\ Len(sales) > Len(pre[s].sales))
             => cart[s] = <<>>
\* C17 (as claimed): every stored crop has expected_harvest_date >=
\* date_planted and, when it has an actual_harvest_date, that date >=
\* date_planted.
CropDatesOrdered ==
    \A i \in 1..Len(crops) :
        /\ crops[i].expected_harvest_date.d >= crops[i].date_planted.d
        /\ crops[i].actual_harvest_date.t = "date"
              => crops[i].actual_harvest_date.d >= crops[i].date_planted.d

\* C20: in the order in which they were added, site_ids and crop_ids are
\* strictly increasing, so no two sites share a site_id and no two crops a
\* crop_id.
IdsUnique ==
    /\ \A i, j \in 1..Len(sites) :
          i < j => sites[i].site_id < sites[j].site_id
    /\ \A i, j \in 1..Len(crops) :
          i < j => crops[i].crop_id < crops[j].crop_id

\* C20 witness: two sites and two crops are stored, the later crop edited.
IdsUnique_witness ==
    /\ Len(sites) = 2
    /\ Len(crops) = 2
    /\ crops[2].available_qty # crops[2].yield_qty
\* what the claims call absent: the cell holds no date
Absent(cell) == cell.t # "date"

\* the crops of the stored table that are not harvested and whose expected
\* harvest lies 0..d days after `day`
Due(day, d) ==
    {crops[i].crop_id : i \in
        {j \in 1..Len(crops) :
            /\ Absent(crops[j].actual_harvest_date)
            /\ 0 <= crops[j].expected_harvest_date.d - day
            /\ crops[j].expected_harvest_date.d - day <= d}}

\* C13: whenever a session's page is rendered and waits, its alert lists exactly the
\* crops without an actual harvest date whose expected harvest date is 0 to 7
\* days (both included) after today; harvested, overdue and later crops are
\* not listed.
HarvestDueWindow ==
    \A s \in Sessions :
        pc[s] = "idle" => soon[s] = Due(today, HarvestAlertWindow)

\* C13 witness: a dashboard that lists a crop due today and one due in 7 days
\* and leaves out an unharvested crop due in 8 days and a harvested one.
HarvestDueWindow_witness ==
    /\ pc[1] = "idle"
    /\ \E i, j \in 1..Len(crops) :
          /\ crops[i].crop_id \in soon[1]
          /\ crops[i].expected_harvest_date.d - today \in {0, HarvestAlertWindow}
          /\ crops[j].crop_id \notin soon[1]
          /\ \/ crops[j].expected_harvest_date.d - today = HarvestAlertWindow + 1
             \/ ~Absent(crops[j].actual_harvest_date)

\* scenario S6: three unharvested crops expected at today+3, today+10 and
\* today-1, and the dashboard rendered
ScenarioS6 ==
    /\ pc[1] = "idle"
    /\ Len(crops) = 3
    /\ \A i \in 1..3 : Absent(crops[i].actual_harvest_date)
    /\ crops[1].expected_harvest_date.d = today + 3
    /\ crops[2].expected_harvest_date.d = today + 10
    /\ crops[3].expected_harvest_date.d = today - 1

\* C14 (as claimed): in scenario S6 the alert returns the first crop and the
\* third, and not the second.
ScenarioS6FirstAndThird ==
    ScenarioS6 => soon[1] = {crops[1].crop_id, crops[3].crop_id}

\* C14 (amended): in scenario S6 the alert returns the first crop (today+3)
\* only; the overdue third crop (today-1) and the second (today+10) are not
\* returned.
ScenarioS6FirstOnly ==
    ScenarioS6 => soon[1] = {crops[1].crop_id}

\* C14 witness: scenario S6 with an alert that was computed and is not empty.
ScenarioS6FirstOnly_witness ==
    /\ ScenarioS6
    /\ soon[1] # {}
    /\ crops[3].crop_id \notin soon[1]
\* two sessions have both written crops.csv in finalize runs that are still
\* under way, and both runs loaded the same crops table
BothSaved(s1, s2) ==
    /\ s1 # s2
    /\ pc[s1] \in {"crops_saved", "sales_saved"}
    /\ pc[s2] \in {"crops_saved", "sales_saved"}
    /\ pre[s1].crops = pre[s2].crops

\* the crops table after the finalize of s1 and then the finalize of s2, run
\* one after the other on the table both loaded
OneAfterTheOther(s1, s2) ==
    save_crops(ReduceInventory(
        ReduceInventory(load_crops(pre[s1].crops), cart[s1]), cart[s2]))

\* C16 (as claimed): when the finalize runs of two sessions interleave, the
\* stored balances are those of the two runs made one after the other (no
\* decrement is lost), and no balance is negative.
SerializedStockUpdates ==
    /\ \A i \in 1..Len(crops) : crops[i].available_qty >= 0
    /\ \A s1, s2 \in Sessions :
          BothSaved(s1, s2) => crops = OneAfterTheOther(s1, s2)
====
